---------------------------- MODULE Spec2Model ----------------------------
(***************************************************************************)
(* A model of dr_ash_ai_pipeline.py: the Streamlit handler main, the EDF   *)
(* analysis analyze_edf with its helper bandpower, and the reporting step  *)
(* generate_reports.                                                       *)
(*                                                                         *)
(* Numbers.  Sample rates and band edges are whole Hz.  A frequency bin is *)
(* the exact fraction k*fs/nperseg, kept as the numerator k*fs over the    *)
(* denominator nperseg that all bins of one PSD share.  Powers and         *)
(* relative powers are exact fractions <<num, den>> in lowest terms        *)
(* (floating-point rounding is not modelled).                              *)
(*                                                                         *)
(* Samples.  The sample values of a channel are not modelled.  A signal is *)
(* its length n and, once filtered, the spectrum of the filtered samples:  *)
(* a flat level plus at most one peak.  The filter stage picks that        *)
(* spectrum freely, so every non-negative PSD of the family is a possible  *)
(* outcome of butter/filtfilt/welch.                                       *)
(***************************************************************************)
EXTENDS Integers, Sequences, FiniteSets, Bags, TLC

(***************************************************************************)
(* Bounds of the model.                                                    *)
(***************************************************************************)
MaxUploads == 2
MaxChannels == 2
MaxPsd == 1

\* Sample rates a channel may report: 50 and 90 put the 45 Hz corner at or
\* above Nyquist, 128 does not.
SampleRates == {50, 90, 128}
\* Sample counts a channel may hold: 27 is filtfilt's pad length, 28 and 64
\* are shorter than the 2 s segment of a 128 Hz channel, 256 is exactly it.
SignalLengths == {27, 28, 64, 256}
\* Frequencies (Hz) at which the filtered spectrum may peak.
PeakHz == {4, 10, 30, 60}
LabelSet == {"Fp1", "Cz"}
Texts == {"t1", "t2"}

(***************************************************************************)
(* Program constants.                                                      *)
(***************************************************************************)
\* A registry whose Beta band starts at 13 Hz, leaving 12-13 Hz to no band.
EEG_BANDS_Gap ==
    << <<"Delta", <<1, 4>> >>, <<"Theta", <<4, 8>> >>, <<"Alpha", <<8, 12>> >>,
       <<"Beta", <<13, 30>> >>, <<"High Beta", <<30, 45>> >> >>

\* EEG_BANDS, in the dict's insertion order.
EEG_BANDS ==
    << <<"Delta", <<1, 4>> >>, <<"Theta", <<4, 8>> >>, <<"Alpha", <<8, 12>> >>,
       <<"Beta", <<12, 30>> >>, <<"High Beta", <<30, 45>> >> >>

BandName(b) == EEG_BANDS[b][1]
BandEdges(b) == EEG_BANDS[b][2]
NBands == Len(EEG_BANDS)

BRODMANN_MAP ==
    [ch \in {"Fp1", "Fp2", "F3", "F4", "C3", "C4", "O1", "O2"} |->
        CASE ch \in {"Fp1", "Fp2"} -> <<"BA10", "BA11">>
          [] ch \in {"F3", "F4"} -> <<"BA6", "BA8">>
          [] ch \in {"C3", "C4"} -> <<"BA1", "BA2", "BA3", "BA4">>
          [] ch \in {"O1", "O2"} -> <<"BA17", "BA18">>]

\* BRODMANN_MAP.get(ch, [])
BrodmannGet(ch) == IF ch \in DOMAIN BRODMANN_MAP THEN BRODMANN_MAP[ch] ELSE <<>>

\* bandpower's default window_sec
WindowSec == 2
\* butter(4, [1/(fs/2), 45/(fs/2)], btype="band")
FilterOrder == 4
LowCorner == 1
HighCorner == 45
\* the broadband interval [1, 45] of total_power
Broadband == <<1, 45>>
\* val > 0.3
ThresholdNum == 3
ThresholdDen == 10
\* text[:500]
PreviewLen == 500

(***************************************************************************)
(* Exact fractions.                                                        *)
(***************************************************************************)
RECURSIVE GCD(_, _)
GCD(a, b) == IF b = 0 THEN a ELSE GCD(b, a % b)

\* The fraction n/d (n >= 0, d > 0) in lowest terms.
Rat(n, d) == LET g == GCD(n, d) IN <<n \div g, d \div g>>

RatZero == <<0, 1>>
RatOne == <<1, 1>>
RatLE(x, y) == x[1] * y[2] <= y[1] * x[2]
RatLT(x, y) == x[1] * y[2] < y[1] * x[2]
RatAdd(x, y) == Rat(x[1] * y[2] + y[1] * x[2], x[2] * y[2])
\* x / y; a zero divisor gives numpy's nan (0/0) or inf, kept as <<_, 0>>.
RatDiv(x, y) ==
    IF y[1] = 0 THEN <<(IF x[1] = 0 THEN 0 ELSE 1), 0>>
    ELSE Rat(x[1] * y[2], x[2] * y[1])

(***************************************************************************)
(* Python dicts: sequences of <<key, value>> in insertion order.           *)
(***************************************************************************)
DictKeys(d) == [k \in 1..Len(d) |-> d[k][1]]
DictHas(d, key) == \E k \in 1..Len(d) : d[k][1] = key
DictGet(d, key) == d[CHOOSE k \in 1..Len(d) : d[k][1] = key][2]
\* d[key] = val: an existing key keeps its position, a new key is appended.
DictSet(d, key, val) ==
    IF DictHas(d, key)
    THEN [k \in 1..Len(d) |-> IF d[k][1] = key THEN <<key, val>> ELSE d[k]]
    ELSE Append(d, <<key, val>>)

(***************************************************************************)
(* scipy.signal.welch(data, sf, nperseg=window_sec * sf), on the abstract  *)
(* signal.  A segment longer than the data is cut to the data's length     *)
(* (the library warns and goes on); the bins are k*sf/nperseg for          *)
(* k = 0 .. nperseg // 2.                                                  *)
(***************************************************************************)
SegmentLength(n, nperseg) == IF nperseg > n THEN n ELSE nperseg

\* The bin (0-based) holding the spectrum's peak, the last bin at or below
\* the peak frequency.
PeakBin(data, sf, nseg) == (data.peak * nseg) \div sf

welch(data, sf, nperseg) ==
    LET nseg == SegmentLength(data.n, nperseg)
        nbins == nseg \div 2 + 1
    IN [den |-> nseg,
        freqs |-> [k \in 1..nbins |-> (k - 1) * sf],
        psd |-> [k \in 1..nbins |->
                    data.level
                    + (IF data.height > 0 /\ k - 1 = PeakBin(data, sf, nseg)
                       THEN data.height ELSE 0)]]

\* The sum of the values of the function f, every value >= 0: the size of
\* the bag that holds j f[j] times.
SumOver(f) == BagCardinality([j \in {m \in DOMAIN f : f[m] > 0} |-> f[j]])

\* arr[mask]: the entries of arr whose mask entry is TRUE, in order.
BoolIndex(arr, mask) ==
    LET idx == SelectSeq([k \in 1..Len(arr) |-> k], LAMBDA k : mask[k])
    IN [j \in 1..Len(idx) |-> arr[idx[j]]]

\* np.trapz(y, x), with x given as numerators over den: the sum of
\* (x[j+1] - x[j]) * (y[j+1] + y[j]) / 2.
trapz(y, x, den) ==
    Rat(SumOver([j \in 2..Len(y) |-> (x[j] - x[j - 1]) * (y[j] + y[j - 1])]), 2 * den)

\* A half-open band: freqs < band[1].
InBandHalfOpen(w, k, band) ==
    w.freqs[k] >= band[1] * w.den /\ w.freqs[k] < band[2] * w.den

\* np.logical_and(freqs >= band[0], freqs <= band[1])
InBand(w, k, band) ==
    w.freqs[k] >= band[1] * w.den /\ w.freqs[k] <= band[2] * w.den

bandpower(data, sf, band, window_sec) ==
    LET w == welch(data, sf, window_sec * sf)
        idx_band == [k \in 1..Len(w.freqs) |-> InBand(w, k, band)]
    IN trapz(BoolIndex(w.psd, idx_band), BoolIndex(w.freqs, idx_band), w.den)

\* The division without its guard.
RelativePowerUnguarded(bp, total_power) == RatDiv(bp, total_power)

\* bp / total_power if total_power > 0 else 0
RelativePower(bp, total_power) ==
    IF total_power[1] > 0 THEN RatDiv(bp, total_power) ELSE RatZero

(***************************************************************************)
(* State.                                                                  *)
(***************************************************************************)
VARIABLES
    uploads,          \* st.file_uploader's list, fixed for the run
    fidx,             \* main: index of the upload the for loop is at
    pc,               \* position: "main", the steps of analyze_edf, "done", "crashed"
    edf_results,      \* main's edf_results
    extracted_texts,  \* main's extracted_texts
    error,            \* the exception that ended the run, [kind, at]
    handle,           \* the EdfReader f: "none", "open", "closed"
    n_channels, labels, fs_list, results, i,      \* analyze_edf's locals
    signal, fs, total_power, band_powers, band, bp,
    clinical, patient \* the two documents generate_reports builds

vars == <<uploads, fidx, pc, edf_results, extracted_texts, error, handle,
          n_channels, labels, fs_list, results, i, signal, fs, total_power,
          band_powers, band, bp, clinical, patient>>

mainVars == <<fidx, edf_results, extracted_texts>>
headerVars == <<n_channels, labels, fs_list>>
channelVars == <<signal, fs, total_power, band_powers, band, bp>>
docVars == <<clinical, patient>>

NoError == [kind |-> "none", at |-> "none"]
NoText == [id |-> "", len |-> 0]
NoSignal == [n |-> 0, stage |-> "unset", level |-> 0, peak |-> 0, height |-> 0]
\* a power not yet computed
NoPower == <<0, 0>>

\* The uploads of one run: .edf files with their channel count, other files
\* with the text their content holds.  All .edf files of a run together
\* hold at most MaxChannels channels.
EdfFiles == {[name |-> "rec.edf", ext |-> ".edf", nch |-> c, text |-> NoText] :
                c \in 0..MaxChannels}
TextFiles ==
    {[name |-> f[1], ext |-> f[2], nch |-> 0, text |-> t] :
        f \in {<<"notes.pdf", ".pdf">>, <<"SCAN.PDF", ".PDF">>},
        t \in {[id |-> x, len |-> IF x = "t1" THEN PreviewLen - 1 ELSE PreviewLen + 1] :
                    x \in Texts}}
Files == EdfFiles \cup TextFiles

RECURSIVE SumChannels(_)
SumChannels(files) ==
    IF files = <<>> THEN 0 ELSE Head(files).nch + SumChannels(Tail(files))

UploadLists ==
    {u \in UNION {[1..k -> Files] : k \in 0..MaxUploads} : SumChannels(u) <= MaxChannels}

\* The spectra the filtered samples may have.
Spectra ==
    {[level |-> l, peak |-> 0, height |-> 0] : l \in 0..MaxPsd}
    \cup {[level |-> l, peak |-> p, height |-> h] :
            l \in 0..(MaxPsd - 1), p \in PeakHz, h \in 1..MaxPsd}

Init ==
    /\ uploads \in UploadLists
    /\ fidx = 1
    /\ pc = "main"
    /\ edf_results = <<>>
    /\ extracted_texts = <<>>
    /\ error = NoError
    /\ handle = "none"
    /\ n_channels = 0 /\ labels = <<>> /\ fs_list = <<>> /\ results = <<>> /\ i = 0
    /\ signal = NoSignal /\ fs = 0 /\ total_power = NoPower
    /\ band_powers = <<>> /\ band = 0 /\ bp = NoPower
    /\ clinical = <<>> /\ patient = <<>>

\* file.name.endswith(".edf")
IsEdf(file) == file.ext = ".edf"

\* extract_text: the text of a .pdf, .docx or .csv file or of an image
\* (.png/.jpg/.jpeg, any case), "" for any other name.
extract_text(file) ==
    IF file.ext \in {".pdf", ".docx", ".csv", ".png", ".jpg", ".jpeg", ".PNG", ".JPG", ".JPEG"}
    THEN file.text ELSE NoText

\* An exception leaves analyze_edf and main: nothing after the raise runs.
Raise(kind, at) ==
    /\ error' = [kind |-> kind, at |-> at]
    /\ pc' = "crashed"

(***************************************************************************)
(* main, the for loop over the uploads.                                    *)
(***************************************************************************)
\* else: extracted_texts[file.name] = extract_text(path)
ExtractText ==
    /\ pc = "main" /\ fidx <= Len(uploads) /\ ~IsEdf(uploads[fidx])
    /\ extracted_texts' =
           DictSet(extracted_texts, uploads[fidx].name, extract_text(uploads[fidx]))
    /\ fidx' = fidx + 1
    /\ UNCHANGED <<uploads, pc, edf_results, error, handle, headerVars, results, i,
                   channelVars, docVars>>

(***************************************************************************)
(* analyze_edf.                                                            *)
(***************************************************************************)
\* f = pyedflib.EdfReader(file_path) and the header reads; results = {}.
OpenRecording ==
    /\ pc = "main" /\ fidx <= Len(uploads) /\ IsEdf(uploads[fidx])
    /\ handle' = "open"
    /\ n_channels' = uploads[fidx].nch
    /\ labels' \in [1..uploads[fidx].nch -> LabelSet]
    /\ fs_list' \in [1..uploads[fidx].nch -> SampleRates]
    /\ results' = <<>>
    /\ i' = 1
    /\ pc' = "chan"
    /\ UNCHANGED <<uploads, mainVars, error, channelVars, docVars>>

\* The file cannot be opened as EDF: EdfReader raises, no handle exists.
OpenFails ==
    /\ pc = "main" /\ fidx <= Len(uploads) /\ IsEdf(uploads[fidx])
    /\ Raise("OSError", "open")
    /\ UNCHANGED <<uploads, mainVars, handle, headerVars, results, i, channelVars, docVars>>

\* signal = f.readSignal(i); fs = fs_list[i]
ReadSignal ==
    /\ pc = "chan" /\ i <= n_channels
    /\ \E n \in SignalLengths : signal' = [NoSignal EXCEPT !.n = n, !.stage = "raw"]
    /\ fs' = fs_list[i]
    /\ pc' = "filter"
    /\ UNCHANGED <<uploads, mainVars, error, handle, headerVars, results, i,
                   total_power, band_powers, band, bp, docVars>>

\* readSignal raises (the samples cannot be read).
ReadFails ==
    /\ pc = "chan" /\ i <= n_channels
    /\ Raise("OSError", "read")
    /\ UNCHANGED <<uploads, mainVars, handle, headerVars, results, i, channelVars, docVars>>

\* butter rejects critical frequencies outside 0 < Wn < 1, Wn = corner/(fs/2).
ButterRejects(rate) == ~(0 < 2 * LowCorner /\ 2 * HighCorner < rate)
\* filtfilt's default padlen, 3 * max(len(a), len(b)), for the band-pass of
\* order FilterOrder (2 * FilterOrder + 1 coefficients); the input must be longer.
PadLen == 3 * (2 * FilterOrder + 1)
FiltfiltRejects(n) == n <= PadLen

\* signal = signal - np.mean(signal); b, a = butter(...); signal = filtfilt(b, a, signal)
FilterStage ==
    /\ pc = "filter"
    /\ ~ButterRejects(fs) /\ ~FiltfiltRejects(signal.n)
    /\ \E s \in Spectra :
          signal' = [n |-> signal.n, stage |-> "filtered", level |-> s.level,
                     peak |-> s.peak, height |-> s.height]
    /\ pc' = "total"
    /\ UNCHANGED <<uploads, mainVars, error, handle, headerVars, results, i, fs,
                   total_power, band_powers, band, bp, docVars>>

FilterFails ==
    /\ pc = "filter"
    /\ \/ ButterRejects(fs) /\ Raise("ValueError", "butter")
       \/ ~ButterRejects(fs) /\ FiltfiltRejects(signal.n) /\ Raise("ValueError", "filtfilt")
    /\ signal' = [signal EXCEPT !.stage = "demeaned"]
    /\ UNCHANGED <<uploads, mainVars, handle, headerVars, results, i, fs,
                   total_power, band_powers, band, bp, docVars>>

\* band_powers = {}; total_power = bandpower(signal, fs, [1, 45])
TotalPower ==
    /\ pc = "total"
    /\ band_powers' = <<>>
    /\ total_power' = bandpower(signal, fs, Broadband, WindowSec)
    /\ band' = 1
    /\ pc' = "band"
    /\ UNCHANGED <<uploads, mainVars, error, handle, headerVars, results, i, signal, fs,
                   bp, docVars>>

\* One pass of "for band in EEG_BANDS".
BandStep ==
    /\ pc = "band" /\ band <= NBands
    /\ LET p == bandpower(signal, fs, BandEdges(band), WindowSec)
       IN /\ bp' = p
          /\ band_powers' =
                 DictSet(band_powers, BandName(band), RelativePower(p, total_power))
    /\ band' = band + 1
    /\ UNCHANGED <<uploads, mainVars, pc, error, handle, headerVars, results, i, signal, fs,
                   total_power, docVars>>

\* results[labels[i]] = band_powers, and on to the next channel.
StoreChannel ==
    /\ pc = "band" /\ band > NBands
    /\ results' = DictSet(results, labels[i], band_powers)
    /\ i' = i + 1
    /\ pc' = "chan"
    /\ UNCHANGED <<uploads, mainVars, error, handle, headerVars, channelVars, docVars>>

\* results folded into d, key by key (dict.update).
RECURSIVE DictUpdate(_, _, _)
DictUpdate(d, other, k) ==
    IF k > Len(other) THEN d
    ELSE DictUpdate(DictSet(d, other[k][1], other[k][2]), other, k + 1)

\* A return whose mapping is merged into main's edf_results.
CloseAndReturnMerging ==
    /\ pc = "chan" /\ i > n_channels
    /\ handle' = "closed"
    /\ edf_results' = DictUpdate(edf_results, results, 1)
    /\ fidx' = fidx + 1
    /\ pc' = "main"
    /\ n_channels' = 0 /\ labels' = <<>> /\ fs_list' = <<>> /\ results' = <<>> /\ i' = 0
    /\ signal' = NoSignal /\ fs' = 0 /\ total_power' = NoPower
    /\ band_powers' = <<>> /\ band' = 0 /\ bp' = NoPower
    /\ UNCHANGED <<uploads, extracted_texts, error, docVars>>

\* f.close(); return results -- and main's edf_results = analyze_edf(path).
CloseAndReturn ==
    /\ pc = "chan" /\ i > n_channels
    /\ handle' = "closed"
    /\ edf_results' = results
    /\ fidx' = fidx + 1
    /\ pc' = "main"
    /\ n_channels' = 0 /\ labels' = <<>> /\ fs_list' = <<>> /\ results' = <<>> /\ i' = 0
    /\ signal' = NoSignal /\ fs' = 0 /\ total_power' = NoPower
    /\ band_powers' = <<>> /\ band' = 0 /\ bp' = NoPower
    /\ UNCHANGED <<uploads, extracted_texts, error, docVars>>

(***************************************************************************)
(* generate_reports.  A document is the sequence of the lines and images   *)
(* written to it.                                                          *)
(***************************************************************************)
\* The comparison the wrong way round.
ExceedsThresholdFlipped(val) == val[1] * ThresholdDen < ThresholdNum * val[2]

\* val > 0.3
ExceedsThreshold(val) == val[1] * ThresholdDen > ThresholdNum * val[2]

\* The auto-interpretation of one channel: "for band, val in bands.items()".
RECURSIVE ChannelAnnotations(_, _, _)
ChannelAnnotations(ch, bands, k) ==
    IF k > Len(bands) THEN <<>>
    ELSE (IF ExceedsThreshold(bands[k][2])
          THEN <<[kind |-> "annotation", ch |-> ch, band |-> bands[k][1],
                  regions |-> BrodmannGet(ch)]>>
          ELSE <<>>)
         \o ChannelAnnotations(ch, bands, k + 1)

\* "for ch, bands in edf_results.items()"
RECURSIVE Annotations(_, _)
Annotations(res, c) ==
    IF c > Len(res) THEN <<>>
    ELSE ChannelAnnotations(res[c][1], res[c][2], 1) \o Annotations(res, c + 1)

\* clinical.multi_cell(0, 10, f"{ch}: {bands}")
Findings(res) == [c \in 1..Len(res) |-> [kind |-> "finding", ch |-> res[c][1], bands |-> res[c][2]]]

\* text[:500] followed by "..."
Preview(text) == [id |-> text.id, len |-> IF text.len > PreviewLen THEN PreviewLen ELSE text.len]
UploadLines(texts) ==
    [k \in 1..Len(texts) |-> [kind |-> "upload", fname |-> texts[k][1], preview |-> Preview(texts[k][2])]]

\* generate_headmap: values = [results[ch][band] for ch in results], one
\* bar per channel, for each band of EEG_BANDS.
Headmaps(res) ==
    [b \in 1..NBands |->
        [kind |-> "image", band |-> BandName(b),
         ticks |-> DictKeys(res),
         values |-> [c \in 1..Len(res) |-> DictGet(res[c][2], BandName(b))]]]

ClinicalReport(res, texts) ==
    <<[kind |-> "title"], [kind |-> "findings heading"]>> \o Findings(res)
    \o Annotations(res, 1)
    \o <<[kind |-> "uploads heading"]>> \o UploadLines(texts)
    \o <<[kind |-> "recommendations"]>> \o Headmaps(res)

PatientReport(res) ==
    <<[kind |-> "title"]>> \o Annotations(res, 1)
    \o <<[kind |-> "recommendations"]>> \o Headmaps(res)

\* if edf_results: generate_reports(...), after the for loop.
GenerateReports ==
    /\ pc = "main" /\ fidx > Len(uploads) /\ uploads # <<>>
    /\ edf_results # <<>>
    /\ clinical' = clinical \o ClinicalReport(edf_results, extracted_texts)
    /\ patient' = patient \o PatientReport(edf_results)
    /\ pc' = "done"
    /\ UNCHANGED <<uploads, mainVars, error, handle, headerVars, results, i, channelVars>>

\* The run ends without reports: no upload at all, or an empty edf_results.
NoReports ==
    /\ pc = "main" /\ fidx > Len(uploads)
    /\ uploads = <<>> \/ edf_results = <<>>
    /\ pc' = "done"
    /\ UNCHANGED <<uploads, mainVars, error, handle, headerVars, results, i, channelVars,
                   docVars>>

Next ==
    \/ ExtractText
    \/ OpenRecording
    \/ OpenFails
    \/ ReadSignal
    \/ ReadFails
    \/ FilterStage
    \/ FilterFails
    \/ TotalPower
    \/ BandStep
    \/ StoreChannel
    \/ CloseAndReturn
    \/ GenerateReports
    \/ NoReports

Spec == Init /\ [][Next]_vars

(***************************************************************************)
(* Properties.                                                             *)
(***************************************************************************)
\* analyze_edf is not running: before the call, after its return, or after
\* an exception has left it.
OutsideAnalysis == pc \in {"main", "done", "crashed"}

\* C1: no execution of analyze_edf ends, by return or by exception, with
\* the recording handle still open.
C1_HandleClosedOnEveryExit == OutsideAnalysis => handle # "open"

\* C2: when the filter stage of one channel fails, the failure does not
\* end the analysis, and every properly-sampled sibling channel has a
\* profile in the outcome handed to the caller.
C2_SiblingsStillAnalysed ==
    error.at \in {"butter", "filtfilt"} =>
        /\ pc # "crashed"
        /\ \A j \in 1..n_channels :
              (j # i /\ 2 * HighCorner < fs_list[j]) => DictHas(edf_results, labels[j])

\* Every relative power stored in a result mapping.
StoredValues(res) == {res[c][2][k][2] : c \in 1..Len(res), k \in 1..NBands}

\* C3: every stored relative power is a number in [0, 1]; it is
\* bandPower / broadbandPower when the broadband power is > 0, and all five
\* are exactly 0 when the broadband power is 0, with no error raised.
C3_RelativePowerRange ==
    /\ \A v \in StoredValues(results) \cup StoredValues(edf_results) :
          v[2] > 0 /\ v[1] >= 0 /\ v[1] <= v[2]
    /\ (pc = "band" /\ band > 1) =>
          LET v == band_powers[band - 1][2]
          IN /\ error = NoError
             /\ band_powers[band - 1][1] = BandName(band - 1)
             /\ total_power[1] > 0 =>
                   v[2] > 0 /\ v[1] * bp[2] * total_power[1] = v[2] * bp[1] * total_power[2]
             /\ total_power[1] = 0 =>
                   \A k \in 1..(band - 1) : band_powers[k][2] = <<0, 1>>

\* C3's case: a channel with zero broadband power has just got its five
\* zeros while an earlier channel holds a relative power strictly inside (0, 1).
C3_Witness ==
    /\ pc = "band" /\ band > NBands /\ total_power[1] = 0
    /\ \E v \in StoredValues(results) : 0 < v[1] /\ v[1] < v[2]

\* C4: when analyze_edf returns, the keys of the returned mapping, in
\* order, are the recording's channel labels, in order.
C4_KeysFollowLabels == (pc = "chan" /\ i > n_channels) => DictKeys(results) = labels

\* The annotation lines of a document, in the order written.
AnnotationLines(doc) == SelectSeq(doc, LAMBDA l : l.kind = "annotation")

\* The (channel, band) positions of edf_results whose value is above 0.3.
ExceedingPairs ==
    {q \in (1..Len(edf_results)) \X (1..NBands) :
        LET v == DictGet(edf_results[q[1]][2], BandName(q[2]))
        IN 10 * v[1] > 3 * v[2]}

\* The place of a pair among the exceeding pairs, channels first.
PairRank(q) ==
    1 + Cardinality({r \in ExceedingPairs : r[1] < q[1] \/ (r[1] = q[1] /\ r[2] < q[2])})

FilterStageRan == pc \in {"total", "band"} \/ error.at \in {"butter", "filtfilt"}

\* C6: the filter stage of a channel fails with InvalidSampleRate exactly
\* when 45 >= fs/2, and then no profile of that channel is stored.
C6_InvalidSampleRate ==
    FilterStageRan =>
        /\ (2 * 45 >= fs) <=> (error.kind = "InvalidSampleRate")
        /\ (2 * 45 >= fs) => ~DictHas(results, labels[i])

\* C7: spectral estimation of a signal shorter than window_sec * sample_rate
\* fails with InsufficientSamples; no band power is computed from it.
C7_InsufficientSamples ==
    (pc = "band" /\ signal.n < 2 * fs) => error.kind = "InsufficientSamples"

\* The PSD at hand while the band loop runs, and its bins 0 .. NumBins - 1.
CurrentPsd == welch(signal, fs, 2 * fs)
NumBins == SegmentLength(signal.n, 2 * fs) \div 2 + 1
\* Bin k (0-based) lies at k * fs / den Hz; is it inside [lo, hi]?
BinInside(k, lo, hi) ==
    LET den == SegmentLength(signal.n, 2 * fs) IN lo * den <= k * fs /\ k * fs <= hi * den
\* An edge e (Hz) is a frequency bin.
EdgeIsBin(e) ==
    LET den == SegmentLength(signal.n, 2 * fs) IN \E k \in 0..(den \div 2) : k * fs = e * den

\* The integral of the PSD over the trapezoids between adjacent bins k, k+1
\* for the k in the set keep.
IntegralOver(keep) ==
    LET w == CurrentPsd
    IN Rat(SumOver([k \in keep |-> fs * (w.psd[k + 1] + w.psd[k + 2])]), 2 * w.den)

\* The integral of the PSD over the trapezoids with both ends in [lo, hi].
InclusiveIntegral(lo, hi) ==
    IntegralOver({k \in 0..(NumBins - 2) : BinInside(k, lo, hi) /\ BinInside(k + 1, lo, hi)})

\* The number of bins inside [lo, hi].
BinsInside(lo, hi) == Cardinality({k \in 0..(NumBins - 1) : BinInside(k, lo, hi)})

\* C8: bandpower is the trapezoidal integral of the PSD over exactly the
\* bins with low <= f <= high: a bin on a shared edge counts in both bands,
\* fewer than two bins give 0, bins outside never contribute.
C8_BandpowerInclusiveTrapezoid ==
    pc = "band" =>
        /\ total_power = InclusiveIntegral(1, 45)
        /\ band > 1 =>
              LET e == EEG_BANDS[band - 1][2]
              IN /\ bp = InclusiveIntegral(e[1], e[2])
                 /\ BinsInside(e[1], e[2]) <= 1 => bp = <<0, 1>>

\* C8's case: a peak on the bin at 4 Hz, the edge Delta and Theta share,
\* on the 0.5 Hz grid; Theta has just been integrated and Delta got the
\* same half of the peak.
C8_Witness ==
    /\ pc = "band" /\ band = 3
    /\ signal.peak = 4 /\ signal.height > 0 /\ signal.level = 0 /\ signal.n >= 2 * fs
    /\ bp[1] > 0
    /\ band_powers[1][2] = <<1, 2>> /\ band_powers[2][2] = <<1, 2>>

\* The sum of the relative powers stored so far for the channel at hand.
RECURSIVE SumRelative(_)
SumRelative(k) == IF k = 0 THEN <<0, 1>> ELSE RatAdd(SumRelative(k - 1), band_powers[k][2])

\* The band loop of a channel with broadband power > 0 has finished.
ProfileComplete == pc = "band" /\ band > NBands /\ total_power[1] > 0

AllEdgesAreBins == \A e \in {1, 4, 8, 12, 30, 45} : EdgeIsBin(e)

\* The trapezoids inside [1, 45] that no canonical band holds: their two
\* bins lie on either side of a band edge.
LostIntegral ==
    IntegralOver({k \in 0..(NumBins - 2) :
        /\ BinInside(k, 1, 45) /\ BinInside(k + 1, 1, 45)
        /\ ~\E b \in 1..NBands :
                /\ BinInside(k, EEG_BANDS[b][2][1], EEG_BANDS[b][2][2])
                /\ BinInside(k + 1, EEG_BANDS[b][2][1], EEG_BANDS[b][2][2])})

TextUploadNames == {uploads[k].name : k \in {m \in 1..Len(uploads) : ~IsEdf(uploads[m])}}
\* The last upload with a given name.
LastUploadNamed(name) ==
    uploads[CHOOSE k \in 1..Len(uploads) :
                /\ uploads[k].name = name
                /\ \A m \in (k + 1)..Len(uploads) : uploads[m].name # name]

\* At the end of a run that did not crash: reports exist exactly when the
\* result held is non-empty, they show that result, and the texts of the
\* other uploads are held by file name.
RunOutcome ==
    pc = "done" =>
        /\ fidx > Len(uploads)
        /\ (clinical # <<>>) <=> (edf_results # <<>>)
        /\ (patient # <<>>) <=> (edf_results # <<>>)
        /\ clinical # <<>> =>
              SelectSeq(clinical, LAMBDA l : l.kind = "finding")
                 = [c \in 1..Len(edf_results) |->
                       [kind |-> "finding", ch |-> edf_results[c][1],
                        bands |-> edf_results[c][2]]]
        /\ {extracted_texts[k][1] : k \in 1..Len(extracted_texts)} = TextUploadNames
        /\ \A k \in 1..Len(extracted_texts) :
              LET f == LastUploadNamed(extracted_texts[k][1])
              IN extracted_texts[k][2] = (IF f.ext = ".pdf" THEN f.text ELSE NoText)

\* The documents are written in one step, once, after the last upload, from
\* a non-empty result.
ReportsWrittenOnce ==
    (clinical' # clinical \/ patient' # patient) =>
        /\ fidx > Len(uploads)
        /\ clinical = <<>> /\ patient = <<>>
        /\ edf_results # <<>>
        /\ UNCHANGED <<edf_results, extracted_texts>>

\* main's result changes only when analyze_edf returns, and then it is
\* that call's mapping, whatever was held before.
ResultReplaced ==
    edf_results' # edf_results =>
        /\ pc = "chan" /\ pc' = "main"
        /\ IsEdf(uploads[fidx]) /\ fidx' = fidx + 1
        /\ edf_results' = results

=============================================================================
